---- MODULE Spec2Model ----
(***************************************************************************)
(* A model of maze_demo.py: the depth-first maze generator (Maze), the     *)
(* connectivity query and shortest-path search (get_neighbors, bfs_path),  *)
(* spawn placement (random_spawn_cell) and the pursuit agent (Chaser).     *)
(*                                                                         *)
(* Each component has its own specification over the same variables:       *)
(*   SpecMaze     Maze(width, height): __init__ and the _carve loop        *)
(*   SpecMazeFair the same, with the loop scheduled (weak fairness)        *)
(*   SpecBfs      bfs_path(maze, start, goal) on wall layouts of any shape *)
(*   SpecNeighbors get_neighbors(maze, x, y), called again after a wall    *)
(*                of the cell has been cleared                             *)
(*   SpecSpawn    random_spawn_cell(width, height, exclude, min_dist)      *)
(*   SpecSpawnFair the same, with its loop scheduled (weak fairness)       *)
(*   SpecMain     main: the maze, the crates, the spawn cell, the Chaser   *)
(*                and its frames                                           *)
(*   SpecPlayer   PlayerController: its update, frame after frame, and the *)
(*                pause toggle                                             *)
(***************************************************************************)
EXTENDS Integers, Sequences, FiniteSets, TLC

VARIABLES
    width, height,  \* Maze.width, Maze.height
    grid,           \* Maze.grid: cell -> [visited, walls]
    stack,          \* the local stack of Maze._carve
    mazePc,         \* position in Maze.__init__/_carve
    start, goal,    \* the arguments of a call of bfs_path
    result,         \* what that call returned
    bfsPc,          \* "idle", "call" (arguments bound) or "done"
    previous,       \* what the calls before it returned, oldest first
    exclude,        \* random_spawn_cell's argument exclude
    min_dist,       \* random_spawn_cell's argument min_dist
    spawnCell,      \* the last (cx, cy) sampled by random_spawn_cell
    spawnPc,        \* "idle", "sample" (in the loop), "returned" or "raised"
    spawnDraws,     \* the parity of the number of samples drawn so far
    crates,         \* len(crates) in spawn_random_crates, and of its result
    tries,          \* the local tries of spawn_random_crates
    cratePc,        \* "idle", "loop" or "returned"
    is_paused,      \* the global pause flag
    now,            \* time.time(), in ticks of the clock
    playerPos,      \* player.position (x, z)
    chaser,         \* the fields of the Chaser
    chasePc,        \* "idle", "running", "caught" or "raised"
    lastTick,       \* what the last call of Chaser.update did: its dt and
                    \* elapsed, whether it recalculated, _path and _path_index
                    \* after step 1, the position after step 2, and the
                    \* locals of steps 2 and 3
    frames,         \* the frames run since app.run()
    player,         \* the stamina fields of the PlayerController
    held_keys       \* held_keys['shift'] as the player's last update read it

mazeVars == <<width, height, grid, stack, mazePc>>
bfsVars == <<start, goal, result, bfsPc, previous>>
crateVars == <<crates, tries, cratePc>>
spawnVars == <<exclude, min_dist, spawnCell, spawnPc, spawnDraws, crateVars>>
playerVars == <<player, held_keys>>
chaseVars ==
    <<is_paused, now, playerPos, chaser, chasePc, lastTick, frames, playerVars>>
vars == <<mazeVars, bfsVars, spawnVars, chaseVars>>

----------------------------------------------------------------------------
(* Bounds of the model *)

\* Largest maze width and height generated under SpecMaze.
MaxWidth == 3
MaxHeight == 3

\* Most cells of a grid searched under SpecBfs.
MaxBfsCells == 6

\* Most walls cleared between calls of get_neighbors under SpecNeighbors.
MaxWallChanges == 2

\* Largest min_dist passed to random_spawn_cell under SpecSpawn.
MaxMinDist == 5

\* The grid of the session modelled under SpecMain (MAZE_W, MAZE_H = 15, 15
\* in main), the min_dist main passes to random_spawn_cell (6 in main), the
\* num_crates it passes to spawn_random_crates (25 in main), and the number
\* of frames followed.
MainWidth == 2
MainHeight == 2
MainMinDist == 1
MainCrates == 1
MaxFrames == 3

\* The updates of a PlayerController followed on its own.
MaxPlayerTicks == 6

----------------------------------------------------------------------------
(* Grid Maze Model *)

\* The order of the literal lists/dicts of directions in the source.
DirSeq == <<"N", "S", "E", "W">>
Dirs == {"N", "S", "E", "W"}

\* ('N', (x, y + 1)), ('S', (x, y - 1)), ('E', (x + 1, y)), ('W', (x - 1, y))
Delta(d) ==
    CASE d = "N" -> <<0, 1>>
      [] d = "S" -> <<0, -1>>
      [] d = "E" -> <<1, 0>>
      [] d = "W" -> <<-1, 0>>

Step(c, d) == <<c[1] + Delta(d)[1], c[2] + Delta(d)[2]>>

\* Mutant of Opposite: the reciprocal wall is looked up under the same key.
OppositeSameKey(d) == d

\* opposite = {'N': 'S', 'S': 'N', 'E': 'W', 'W': 'E'}
Opposite(d) ==
    CASE d = "N" -> "S"
      [] d = "S" -> "N"
      [] d = "E" -> "W"
      [] d = "W" -> "E"

\* 0 <= nx < self.width and 0 <= ny < self.height
InBounds(w, h, c) == 0 <= c[1] /\ c[1] < w /\ 0 <= c[2] /\ c[2] < h

\* The index set of grid: range(width) x range(height), empty when either is <= 0.
CellsOf(w, h) == (0 .. (w - 1)) \X (0 .. (h - 1))
Cells == CellsOf(width, height)

\* {'visited': False, 'walls': {'N': True, 'S': True, 'E': True, 'W': True}}
NewCell == [visited |-> FALSE, walls |-> [d \in Dirs |-> TRUE]]

\* Maze.__init__: the grid before _carve runs.
NewGrid(w, h) == [c \in CellsOf(w, h) |-> NewCell]

----------------------------------------------------------------------------
(* Maze generation: Maze.__init__ and Maze._carve *)

\* Maze._unvisited_neighbours: the in-bounds unvisited neighbours of c, each
\* tagged with its direction, in the order N, S, E, W.
RECURSIVE UnvisitedFrom(_, _, _, _, _)
UnvisitedFrom(g, w, h, c, i) ==
    IF i > Len(DirSeq) THEN <<>>
    ELSE LET d == DirSeq[i]
             n == Step(c, d)
             rest == UnvisitedFrom(g, w, h, c, i + 1)
         IN IF InBounds(w, h, n) /\ ~g[n].visited
            THEN <<<<n, d>>>> \o rest
            ELSE rest

\* Mutant of UnvisitedNeighbours: the visited flag is not consulted.
NeighboursVisitedOrNot(g, w, h, c) ==
    SelectSeq([i \in 1 .. Len(DirSeq) |-> <<Step(c, DirSeq[i]), DirSeq[i]>>],
              LAMBDA e : InBounds(w, h, e[1]))

\* Mutant of UnvisitedNeighbours: the last entry of dirs ('W') is left out.
UnvisitedNeighboursNoWest(g, w, h, c) ==
    SelectSeq(UnvisitedFrom(g, w, h, c, 1), LAMBDA e : e[2] # "W")

UnvisitedNeighbours(g, w, h, c) == UnvisitedFrom(g, w, h, c, 1)

\* Mutant of CarveWall: the reciprocal wall is cleared on the current cell,
\* grid[x][y] written for grid[nx][ny].
CarveWallOnCurrentCell(g, c, n, d) ==
    [g EXCEPT ![c].walls[d] = FALSE,
              ![c].walls[Opposite(d)] = FALSE,
              ![n].visited = TRUE]

\* Mutant of CarveWall: only the wall of the current cell is cleared.
CarveWallOneFace(g, c, n, d) ==
    [g EXCEPT ![c].walls[d] = FALSE,
              ![n].visited = TRUE]

\* The three writes of one carve step: both faces of the wall, and the mark.
CarveWall(g, c, n, d) ==
    [g EXCEPT ![c].walls[d] = FALSE,
              ![n].walls[Opposite(d)] = FALSE,
              ![n].visited = TRUE]

\* Mutant of RandIntFails: the empty range 0 .. -1 is let through.
RandIntFailsBelowEmpty(n) == n - 1 < 0 - 1

\* random.randint(0, n - 1): raises ValueError when the range is empty.
RandIntFails(n) == n - 1 < 0

\* sx = randint(0, width - 1); sy = randint(0, height - 1) with an empty range:
\* the ValueError leaves Maze.__init__, no maze object is returned.
CarveRaise ==
    /\ mazePc = "start"
    /\ RandIntFails(width) \/ RandIntFails(height)
    /\ mazePc' = "error"
    /\ UNCHANGED <<width, height, grid, stack>>
    /\ UNCHANGED <<bfsVars, spawnVars, chaseVars>>

\* The start cell is drawn, marked visited and pushed.
CarveStart ==
    /\ mazePc = "start"
    /\ ~RandIntFails(width) /\ ~RandIntFails(height)
    /\ \E sx \in 0 .. (width - 1), sy \in 0 .. (height - 1) :
          /\ grid' = [grid EXCEPT ![<<sx, sy>>].visited = TRUE]
          /\ stack' = <<<<sx, sy>>>>
    /\ mazePc' = "loop"
    /\ UNCHANGED <<width, height>>
    /\ UNCHANGED <<bfsVars, spawnVars, chaseVars>>

\* One iteration of `while stack` whose top has an unvisited neighbour.
CarveStep ==
    /\ mazePc = "loop"
    /\ stack # <<>>
    /\ LET c == stack[Len(stack)]
           neighbours == UnvisitedNeighbours(grid, width, height, c)
       IN /\ neighbours # <<>>
          /\ \E i \in 1 .. Len(neighbours) :
                LET n == neighbours[i][1]
                    d == neighbours[i][2]
                IN /\ grid' = CarveWall(grid, c, n, d)
                   /\ stack' = Append(stack, n)
    /\ UNCHANGED <<width, height, mazePc>>
    /\ UNCHANGED <<bfsVars, spawnVars, chaseVars>>

\* One iteration of `while stack` whose top has none: backtrack.
CarveBacktrack ==
    /\ mazePc = "loop"
    /\ stack # <<>>
    /\ UnvisitedNeighbours(grid, width, height, stack[Len(stack)]) = <<>>
    /\ stack' = SubSeq(stack, 1, Len(stack) - 1)
    /\ UNCHANGED <<width, height, grid, mazePc>>
    /\ UNCHANGED <<bfsVars, spawnVars, chaseVars>>

\* `while stack` finds the stack empty: _carve and __init__ return.
CarveReturn ==
    /\ mazePc = "loop"
    /\ stack = <<>>
    /\ mazePc' = "done"
    /\ UNCHANGED <<width, height, grid, stack>>
    /\ UNCHANGED <<bfsVars, spawnVars, chaseVars>>

\* No call of bfs_path is under way.
IdleBfs ==
    /\ start = <<>> /\ goal = <<>> /\ result = <<>> /\ bfsPc = "idle"
    /\ previous = <<>>

\* spawn_random_crates has not been called.
IdleCrates == crates = 0 /\ tries = 0 /\ cratePc = "idle"

\* No call of random_spawn_cell is under way.
IdleSpawn ==
    /\ exclude = <<>> /\ min_dist = 0 /\ spawnCell = <<>> /\ spawnPc = "idle"
    /\ spawnDraws = 0
    /\ IdleCrates

\* No Chaser has been constructed.
IdleChase ==
    /\ is_paused = FALSE
    /\ now = 0
    /\ playerPos = <<>>
    /\ chaser = <<>>
    /\ chasePc = "idle"
    /\ lastTick = <<>>
    /\ frames = 0
    /\ player = <<>>
    /\ held_keys = FALSE

\* Maze(width, height) up to the call of _carve.
InitMaze ==
    /\ IdleBfs
    /\ IdleSpawn
    /\ IdleChase
    /\ width \in (0 - 1) .. MaxWidth
    /\ height \in (0 - 1) .. MaxHeight
    /\ grid = NewGrid(width, height)
    /\ stack = <<>>
    /\ mazePc = "start"

NextMaze == CarveRaise \/ CarveStart \/ CarveStep \/ CarveBacktrack \/ CarveReturn

SpecMaze == InitMaze /\ [][NextMaze]_vars

\* _carve is a plain loop of one thread: it keeps running until it returns.
SpecMazeFair == SpecMaze /\ WF_vars(NextMaze)

----------------------------------------------------------------------------
(* Connectivity query and shortest-path search: get_neighbors, bfs_path *)

\* Python's None, as the predecessor of the start cell.
None == <<>>

\* maze.grid[x][y] on lists of w and h items: an index outside -n .. n-1
\* raises IndexError, a negative one counts from the end.
IndexFails(n, i) == i >= n \/ i < 0 - n
ListIndex(n, i) == IF i < 0 THEN i + n ELSE i
GridRaises(w, h, c) == IndexFails(w, c[1]) \/ IndexFails(h, c[2])
GridCell(w, h, c) == <<ListIndex(w, c[1]), ListIndex(h, c[2])>>

\* The loop of get_neighbors over dirs.items(), from entry i on.
RECURSIVE NeighborsFrom(_, _, _, _, _)
NeighborsFrom(g, w, h, c, i) ==
    IF i > Len(DirSeq) THEN <<>>
    ELSE LET d == DirSeq[i]
             n == Step(c, d)
             rest == NeighborsFrom(g, w, h, c, i + 1)
         IN IF ~g[GridCell(w, h, c)].walls[d] /\ InBounds(w, h, n)
            THEN <<n>> \o rest
            ELSE rest

\* Mutant of GetNeighbors: the directions are taken clockwise, N, E, S, W.
GetNeighborsClockwise(g, w, h, c) ==
    SelectSeq([i \in 1 .. 4 |-> Step(c, <<"N", "E", "S", "W">>[i])],
              LAMBDA n : InBounds(w, h, n)
                         /\ \E d \in Dirs :
                               n = Step(c, d) /\ ~g[GridCell(w, h, c)].walls[d])

\* Mutant of GetNeighbors: the wall flag is not consulted.
GetNeighborsThroughWalls(g, w, h, c) ==
    SelectSeq([i \in 1 .. Len(DirSeq) |-> Step(c, DirSeq[i])],
              LAMBDA n : InBounds(w, h, n))

\* get_neighbors(maze, x, y), for a cell that indexes the grid.
GetNeighbors(g, w, h, c) == NeighborsFrom(g, w, h, c, 1)

\* Mutant of PopLeft: the newest entry is taken (a stack, not a queue).
PopRight(queue) ==
    [item |-> queue[Len(queue)], rest |-> SubSeq(queue, 1, Len(queue) - 1)]

\* cur = queue.popleft()
PopLeft(queue) == [item |-> Head(queue), rest |-> Tail(queue)]

\* for nb in get_neighbors(...): if nb not in came_from: record and enqueue.
RECURSIVE Discover(_, _, _, _, _)
Discover(nbs, i, cur, queue, came_from) ==
    IF i > Len(nbs) THEN [queue |-> queue, came_from |-> came_from]
    ELSE LET nb == nbs[i]
             q2 == Append(queue, nb)
             cf2 == came_from @@ (nb :> cur)
         IN IF nb \in DOMAIN came_from
            THEN Discover(nbs, i + 1, cur, queue, came_from)
            ELSE Discover(nbs, i + 1, cur, q2, cf2)

\* while queue: ... ; pops counts the iterations of the loop.
RECURSIVE BfsLoop(_, _, _, _, _, _, _)
BfsLoop(g, w, h, t, queue, came_from, pops) ==
    IF queue = <<>> THEN [came_from |-> came_from, pops |-> pops, raised |-> FALSE]
    ELSE LET p == PopLeft(queue)
             cur == p.item
             n == pops + 1
         IN IF cur = t
            THEN [came_from |-> came_from, pops |-> n, raised |-> FALSE]
            ELSE IF GridRaises(w, h, cur)
            THEN [came_from |-> came_from, pops |-> n, raised |-> TRUE]
            ELSE LET nbs == GetNeighbors(g, w, h, cur)
                     r == Discover(nbs, 1, cur, p.rest, came_from)
                     q2 == r.queue
                     cf2 == r.came_from
                 IN BfsLoop(g, w, h, t, q2, cf2, n)

\* The predecessor links from cur back to the start, reversed.
RECURSIVE WalkBack(_, _)
WalkBack(came_from, cur) ==
    IF cur = None THEN <<>>
    ELSE LET prev == came_from[cur]
         IN WalkBack(came_from, prev) \o <<cur>>

\* Mutant of BfsPath: start == goal is answered with the empty list.
BfsPathEmptyWhenSame(g, w, h, s, t) ==
    IF s = t THEN [path |-> <<>>, pops |-> 0, raised |-> FALSE]
    ELSE LET r == BfsLoop(g, w, h, t, <<s>>, (s :> None), 0)
         IN IF r.raised \/ t \notin DOMAIN r.came_from
            THEN [path |-> <<>>, pops |-> r.pops, raised |-> r.raised]
            ELSE [path |-> WalkBack(r.came_from, t), pops |-> r.pops,
                  raised |-> FALSE]

\* bfs_path(maze, start, goal): the list returned, the iterations of its
\* loop, and whether an IndexError left it instead.
BfsPath(g, w, h, s, t) ==
    IF s = t THEN [path |-> <<s>>, pops |-> 0, raised |-> FALSE]
    ELSE LET r == BfsLoop(g, w, h, t, <<s>>, (s :> None), 0)
         IN IF r.raised \/ t \notin DOMAIN r.came_from
            THEN [path |-> <<>>, pops |-> r.pops, raised |-> r.raised]
            ELSE [path |-> WalkBack(r.came_from, t), pops |-> r.pops,
                  raised |-> FALSE]

\* The walls between adjacent cells of a w x h grid.
InteriorEdges(w, h) ==
    {{c, Step(c, d)} : <<c, d>> \in
        {e \in CellsOf(w, h) \X {"N", "E"} : InBounds(w, h, Step(e[1], e[2]))}}

\* A grid after generation whose open walls are the edges in O, both faces
\* of each cleared; every other wall, the boundary included, stands.
LayoutOf(w, h, O) ==
    [c \in CellsOf(w, h) |->
        [visited |-> TRUE,
         walls |-> [d \in Dirs |-> {c, Step(c, d)} \notin O]]]

\* A call bfs_path(maze, start, goal): any grid of at most MaxBfsCells cells
\* with any set of open interior walls (perfect mazes, grids with cycles,
\* grids in several pieces), start a cell of the grid, goal a cell of the
\* grid or one step outside it.
InitBfs ==
    /\ width \in 1 .. MaxWidth
    /\ height \in 1 .. MaxHeight
    /\ width * height <= MaxBfsCells
    /\ \E O \in SUBSET InteriorEdges(width, height) :
          grid = LayoutOf(width, height, O)
    /\ stack = <<>>
    /\ mazePc = "done"
    /\ start \in CellsOf(width, height)
    /\ goal \in ((0 - 1) .. width) \X ((0 - 1) .. height)
    /\ result = <<>>
    /\ bfsPc = "call"
    /\ previous = <<>>
    /\ IdleSpawn
    /\ IdleChase

\* The call runs to its return.
BfsCall ==
    /\ bfsPc = "call"
    /\ result' = BfsPath(grid, width, height, start, goal)
    /\ bfsPc' = "done"
    /\ UNCHANGED <<start, goal, previous>>
    /\ UNCHANGED <<mazeVars, spawnVars, chaseVars>>

NextBfs == BfsCall

SpecBfs == InitBfs /\ [][NextBfs]_vars

\* A grid whose walls all stand but for the cell c0, whose four flags are f.
OneCellLayout(w, h, c0, f) ==
    [c \in CellsOf(w, h) |->
        [visited |-> TRUE,
         walls |-> IF c = c0 THEN f ELSE [d \in Dirs |-> TRUE]]]

\* A call get_neighbors(maze, x, y): any grid up to MaxWidth x MaxHeight, the
\* four wall flags of one cell set any way, (x, y) a cell of the grid or one
\* step outside it.
InitNeighbors ==
    /\ width \in 1 .. MaxWidth
    /\ height \in 1 .. MaxHeight
    /\ \E c0 \in CellsOf(width, height), f \in [Dirs -> BOOLEAN] :
          grid = OneCellLayout(width, height, c0, f)
    /\ stack = <<>>
    /\ mazePc = "done"
    /\ start \in ((0 - 1) .. width) \X ((0 - 1) .. height)
    /\ goal = <<>>
    /\ result = <<>>
    /\ bfsPc = "call"
    /\ previous = <<>>
    /\ IdleSpawn
    /\ IdleChase

\* The call runs to its return, or to the IndexError of maze.grid[x][y].
NeighborsCall ==
    /\ bfsPc = "call"
    /\ result' = IF GridRaises(width, height, start)
                 THEN [raised |-> TRUE, cells |-> <<>>]
                 ELSE [raised |-> FALSE,
                       cells |-> GetNeighbors(grid, width, height, start)]
    /\ previous' = IF result = <<>> THEN previous ELSE Append(previous, result)
    /\ bfsPc' = "done"
    /\ UNCHANGED <<start, goal>>
    /\ UNCHANGED <<mazeVars, spawnVars, chaseVars>>

\* Between two calls a standing wall of the cell asked about is cleared, as
\* self.grid[x][y]['walls'][direction] = False does, and the call is repeated.
WallChange ==
    /\ bfsPc = "done"
    /\ Len(previous) < MaxWallChanges
    /\ start \in Cells
    /\ \E d \in Dirs :
          /\ grid[start].walls[d]
          /\ grid' = [grid EXCEPT ![start].walls[d] = FALSE]
    /\ bfsPc' = "call"
    /\ UNCHANGED <<width, height, stack, mazePc>>
    /\ UNCHANGED <<start, goal, result, previous>>
    /\ UNCHANGED <<spawnVars, chaseVars>>

NextNeighbors == NeighborsCall \/ WallChange

SpecNeighbors == InitNeighbors /\ [][NextNeighbors]_vars

----------------------------------------------------------------------------
(* Spawn placement: random_spawn_cell *)

Abs(n) == IF n < 0 THEN 0 - n ELSE n

\* abs(cx - exclude[0]) + abs(cy - exclude[1])
Manhattan(a, b) == Abs(a[1] - b[1]) + Abs(a[2] - b[2])

\* Mutant of Accepts: the distance has to be more than min_dist.
AcceptsBeyond(c, ex, md) == c # ex /\ Manhattan(c, ex) > md

\* Mutant of Accepts: the two tests are joined by `or`.
AcceptsEither(c, ex, md) == c # ex \/ Manhattan(c, ex) >= md

\* (cx, cy) != exclude and (abs(cx - exclude[0]) + abs(cy - exclude[1]) >= min_dist)
Accepts(c, ex, md) == c # ex /\ Manhattan(c, ex) >= md

\* random.randint(0, width - 1) or random.randint(0, height - 1) is given an
\* empty range: ValueError leaves random_spawn_cell.
SpawnRaise ==
    /\ spawnPc = "sample"
    /\ RandIntFails(width) \/ RandIntFails(height)
    /\ spawnPc' = "raised"
    /\ UNCHANGED <<exclude, min_dist, spawnCell, spawnDraws, crateVars>>
    /\ UNCHANGED <<mazeVars, bfsVars, chaseVars>>

\* One iteration of `while True`: a cell is sampled and returned if accepted.
SpawnSample ==
    /\ spawnPc = "sample"
    /\ ~RandIntFails(width) /\ ~RandIntFails(height)
    /\ \E cx \in 0 .. (width - 1), cy \in 0 .. (height - 1) :
          /\ spawnCell' = <<cx, cy>>
          /\ spawnPc' = IF Accepts(<<cx, cy>>, exclude, min_dist)
                        THEN "returned" ELSE "sample"
    /\ spawnDraws' = 1 - spawnDraws
    /\ UNCHANGED <<exclude, min_dist, crateVars>>
    /\ UNCHANGED <<mazeVars, bfsVars, chaseVars>>

\* A call random_spawn_cell(width, height, exclude, min_dist): exclude a cell
\* of the grid or one step outside it.
InitSpawn ==
    /\ width \in 0 .. MaxWidth
    /\ height \in 0 .. MaxHeight
    /\ grid = <<>>
    /\ stack = <<>>
    /\ mazePc = "idle"
    /\ IdleBfs
    /\ exclude \in ((0 - 1) .. width) \X ((0 - 1) .. height)
    /\ min_dist \in 0 .. MaxMinDist
    /\ spawnCell = <<>>
    /\ spawnPc = "sample"
    /\ spawnDraws = 0
    /\ IdleCrates
    /\ IdleChase

NextSpawn == SpawnRaise \/ SpawnSample

SpecSpawn == InitSpawn /\ [][NextSpawn]_vars

\* The loop of random_spawn_cell is a plain `while True` of one thread: it
\* keeps taking iterations until it returns or raises.
SpecSpawnFair == SpecSpawn /\ WF_vars(NextSpawn)

\* The iteration of the loop in which random.randint draws the cell c.
SampleOf(c) == SpawnSample /\ spawnCell' = c

\* Fair sampling: a run that stays in the loop for ever draws every cell of
\* the grid again and again.
SpecSpawnSampling ==
    SpecSpawn /\ \A c \in CellsOf(MaxWidth, MaxHeight) : WF_vars(SampleOf(c))

----------------------------------------------------------------------------
(* Crates: spawn_random_crates *)

\* tries < num_crates * 10
TriesPerCrate == 10

\* Where a random.uniform(-cell_size * 0.5, cell_size * 0.5) offset falls
\* against margin = cell_size * 0.35: below -margin, within, above margin.
Offsets == {"low", "mid", "high"}

\* is_valid_position: no placed crate is within min_dist (near), and the
\* position is not beyond the margin on a side where the cell has a wall.
IsValidPosition(g, c, ox, oz, near) ==
    /\ ~near
    /\ ~(g[c].walls["N"] /\ oz = "high")
    /\ ~(g[c].walls["S"] /\ oz = "low")
    /\ ~(g[c].walls["E"] /\ ox = "high")
    /\ ~(g[c].walls["W"] /\ ox = "low")

\* while len(crates) < num_crates and tries < num_crates * 10
CratesWanted == crates < MainCrates /\ tries < MainCrates * TriesPerCrate

\* Mutant of CrateTry: a crate that falls by a wall knocks the wall out
\* instead of being skipped.
CrateTryClearsWall ==
    /\ mazePc = "done" /\ cratePc \in {"idle", "loop"}
    /\ CratesWanted
    /\ \E x \in 0 .. (width - 1), y \in 0 .. (height - 1) :
       \E ox \in Offsets, oz \in Offsets :
          /\ crates' = crates + 1
          /\ grid' = [grid EXCEPT ![<<x, y>>].walls =
                         [d \in Dirs |->
                            /\ @[d]
                            /\ ~(d = "N" /\ oz = "high")
                            /\ ~(d = "S" /\ oz = "low")
                            /\ ~(d = "E" /\ ox = "high")
                            /\ ~(d = "W" /\ ox = "low")]]
    /\ tries' = tries + 1
    /\ cratePc' = "loop"
    /\ UNCHANGED <<width, height, stack, mazePc>>
    /\ UNCHANGED <<exclude, min_dist, spawnCell, spawnPc, spawnDraws>>
    /\ UNCHANGED <<bfsVars, chaseVars>>

\* One iteration of the loop of spawn_random_crates: a cell and an offset in
\* it are drawn; the crate is placed if the position is valid.
CrateTry ==
    /\ mazePc = "done" /\ cratePc \in {"idle", "loop"}
    /\ CratesWanted
    /\ ~RandIntFails(width) /\ ~RandIntFails(height)
    /\ \E x \in 0 .. (width - 1), y \in 0 .. (height - 1) :
       \E ox \in Offsets, oz \in Offsets, near \in BOOLEAN :
          /\ near => crates > 0
          /\ crates' = IF IsValidPosition(grid, <<x, y>>, ox, oz, near)
                       THEN crates + 1 ELSE crates
    /\ tries' = tries + 1
    /\ cratePc' = "loop"
    /\ UNCHANGED <<exclude, min_dist, spawnCell, spawnPc, spawnDraws>>
    /\ UNCHANGED <<mazeVars, bfsVars, chaseVars>>

\* The loop ends: enough crates, or the tries are used up; the list goes to
\* main, the local tries is gone.
CrateReturn ==
    /\ mazePc = "done" /\ cratePc = "loop"
    /\ ~CratesWanted
    /\ cratePc' = "returned"
    /\ tries' = 0
    /\ UNCHANGED <<crates, exclude, min_dist, spawnCell, spawnPc, spawnDraws>>
    /\ UNCHANGED <<mazeVars, bfsVars, chaseVars>>

----------------------------------------------------------------------------
(* The pursuit: main's setup and Chaser *)

(* Fixed-point units.  Time is counted in ticks of a tenth of a second,      *)
(* speed in fortieths of a world unit per second, length in four-hundredths  *)
(* of a world unit, so that speed * dt is a length with no rounding and      *)
(* speed_increment = 0.25 per second is one speed unit per tick.  The only   *)
(* rounding left is that of Vec3.normalized() for a direction off the axes.  *)
(* The y coordinates of player and chaser are both 2 (main) and are left out.*)
TicksPerSecond == 2 * 5
SpeedUnit == 4 * TicksPerSecond
LengthUnit == SpeedUnit * TicksPerSecond

\* CELL_SIZE = 5.0
CellSize == 5 * LengthUnit
\* self.recalc_interval = 0.2
RecalcInterval == 2
\* if dist < 0.1
ArriveRadius == LengthUnit \div 10
\* player_dist < self.cell_size * 1.2
NearRadius == 6 * LengthUnit
\* player_dist < 2.5
CloseRadius == (5 * LengthUnit) \div 2
\* distance(self.position, self.player.position) < 3.0
CaptureRadius == 3 * LengthUnit
\* walk_speed=5
WalkSpeed == 5 * SpeedUnit

\* The frame times time.dt of an unpaused frame: 0.1 s and 1 s.
FrameDts == {1, TicksPerSecond}
\* The wall-clock time that passes over a paused frame: 11 s and 36 s (after
\* 12 s main's chaser covers one cell a second, after 36 s the default
\* max_speed is reached).
PausedDts == {11 * TicksPerSecond, 36 * TicksPerSecond}

\* The (base_speed, speed_increment, max_speed) a Chaser is constructed with:
\* main's (2.0, 0.25, 999.0), the defaults of __init__ (3.0, 0.25, 12.0), and
\* a caller's (4.0, 0.25, 3.5).
ChaserConfigs ==
    {[base_speed |-> 2 * SpeedUnit, speed_increment |-> 1, max_speed |-> 999 * SpeedUnit],
     [base_speed |-> 3 * SpeedUnit, speed_increment |-> 1, max_speed |-> 12 * SpeedUnit],
     [base_speed |-> 4 * SpeedUnit, speed_increment |-> 1, max_speed |-> (7 * SpeedUnit) \div 2]}

Min(a, b) == IF a <= b THEN a ELSE b

\* The largest r with r * r <= n, by bisection of lo .. hi.
RECURSIVE SqrtBetween(_, _, _)
SqrtBetween(n, lo, hi) ==
    IF lo >= hi THEN lo
    ELSE LET mid == (lo + hi + 1) \div 2
         IN IF mid * mid <= n THEN SqrtBetween(n, mid, hi)
            ELSE SqrtBetween(n, lo, mid - 1)

\* Vec3.length() of (dx, 0, dz), rounded down to a length unit.
Length(dx, dz) == SqrtBetween(dx * dx + dz * dz, 0, Abs(dx) + Abs(dz))

\* (a.x - b.x)**2 + (a.z - b.z)**2
DistSq(a, b) == (a[1] - b[1]) * (a[1] - b[1]) + (a[2] - b[2]) * (a[2] - b[2])

\* distance(a, b) < r and distance_2d(a, b) < r
Within(a, b, r) == DistSq(a, b) < r * r

\* n * k / len rounded towards zero.
Scaled(n, k, len) ==
    IF n < 0 THEN 0 - (((0 - n) * k) \div len) ELSE (n * k) \div len

\* position += (to - position).normalized() * speed * time.dt; the zero
\* vector normalizes to itself.
MoveToward(pos, to, disp) ==
    LET dx == to[1] - pos[1]
        dz == to[2] - pos[2]
        len == Length(dx, dz)
    IN IF len = 0 THEN pos
       ELSE <<pos[1] + Scaled(dx, disp, len), pos[2] + Scaled(dz, disp, len)>>

\* int(round(v / cell_size)): round() takes a half to the even neighbour.
RoundDiv(v, size) ==
    LET q == v \div size
        r == v % size
    IN IF 2 * r < size THEN q
       ELSE IF 2 * r > size THEN q + 1
       ELSE IF q % 2 = 0 THEN q ELSE q + 1

\* (int(round(p.x / cell_size)), int(round(p.z / cell_size)))
CellOf(pos) == <<RoundDiv(pos[1], CellSize), RoundDiv(pos[2], CellSize)>>

\* (cell[0] * cell_size, y, cell[1] * cell_size)
CentreOf(c) == <<c[1] * CellSize, c[2] * CellSize>>

\* min(self.max_speed, self.base_speed + self.speed_increment * elapsed)
SpeedRamp(c, elapsed) ==
    Min(c.max_speed, c.base_speed + c.speed_increment * elapsed)

\* Mutant of Caught: the always-visible radius 2.5 is used for the capture.
CaughtClose(pos, target) == Within(pos, target, CloseRadius)

\* if distance(self.position, self.player.position) < 3.0
Caught(pos, target) == Within(pos, target, CaptureRadius)

\* Mutant of RecalcCalls: the timer is caught up, one call per interval.
RecalcCallsCatchUp(timer, dt) == (timer + dt) \div RecalcInterval

\* self._timer += time.dt; if self._timer >= self.recalc_interval: the number
\* of calls of _recalc_path the tick makes, and _timer after it.
RecalcCalls(timer, dt) == IF timer + dt >= RecalcInterval THEN 1 ELSE 0
TimerAfter(timer, dt) == IF timer + dt >= RecalcInterval THEN 0 ELSE timer + dt

\* Mutant of RecalcPath: a new path is taken up at the index of the old one.
RecalcPathKeepsIndex(c, target) ==
    LET s == CellOf(c.pos)
        t == CellOf(target)
        r == BfsPath(grid, width, height, s, t)
    IN IF s = t
       THEN [path |-> <<>>, path_index |-> c.path_index, raised |-> FALSE]
       ELSE IF r.raised
       THEN [path |-> c.path, path_index |-> c.path_index, raised |-> TRUE]
       ELSE IF Len(r.path) >= 2
       THEN [path |-> r.path, path_index |-> c.path_index, raised |-> FALSE]
       ELSE [path |-> <<>>, path_index |-> c.path_index, raised |-> FALSE]

\* Chaser._recalc_path: the new (_path, _path_index), or raised when
\* bfs_path indexes the grid outside its lists.
RecalcPath(c, target) ==
    LET s == CellOf(c.pos)
        t == CellOf(target)
        r == BfsPath(grid, width, height, s, t)
    IN IF s = t
       THEN [path |-> <<>>, path_index |-> c.path_index, raised |-> FALSE]
       ELSE IF r.raised
       THEN [path |-> c.path, path_index |-> c.path_index, raised |-> TRUE]
       ELSE IF Len(r.path) >= 2
       THEN [path |-> r.path, path_index |-> 1, raised |-> FALSE]
       ELSE [path |-> <<>>, path_index |-> c.path_index, raised |-> FALSE]

\* Step 2 of Chaser.update, "follow BFS path if one exists": the new
\* position, path and index, and the local `moved`.
FollowPath(pos, path, path_index, disp) ==
    IF path = <<>>
    THEN [pos |-> pos, path |-> path, path_index |-> path_index,
          moved |-> FALSE, raised |-> FALSE]
    ELSE IF path_index >= Len(path)
    THEN [pos |-> pos, path |-> path, path_index |-> path_index,
          moved |-> FALSE, raised |-> TRUE]
    ELSE LET target_world == CentreOf(path[path_index + 1])
         IN IF Within(pos, target_world, ArriveRadius)
            THEN IF path_index < Len(path) - 1
                 THEN [pos |-> pos, path |-> path, path_index |-> path_index + 1,
                       moved |-> FALSE, raised |-> FALSE]
                 ELSE [pos |-> pos, path |-> <<>>, path_index |-> path_index,
                       moved |-> FALSE, raised |-> FALSE]
            ELSE [pos |-> MoveToward(pos, target_world, disp), path |-> path,
                  path_index |-> path_index, moved |-> TRUE, raised |-> FALSE]

\* Step 3, "fallback chase": whether the ray is cast, and whether the chaser
\* then moves straight at the player.
Probes(moved, pos, target) == ~moved \/ Within(pos, target, NearRadius)
GoesDirect(hit, pos, target) == ~hit \/ Within(pos, target, CloseRadius)

\* Stamina is counted in twentieths, so that a rate of 0.5 a second is one
\* stamina unit a tick.
StaminaUnit == 2 * TicksPerSecond
StaminaPerTick == StaminaUnit \div TicksPerSecond

\* The parameters a PlayerController is constructed with: main's
\* (stamina_recovery_rate=0.5) and the defaults of __init__ (1.0); both have
\* walk_speed 5, run_multiplier 2.0, max_stamina 5.0, stamina_drain_rate 1.0
\* and stamina_cooldown 2.0.
MainPlayerConfig ==
    [walk_speed |-> WalkSpeed, run_multiplier |-> 2,
     max_stamina |-> 5 * StaminaUnit,
     stamina_drain_rate |-> StaminaPerTick,
     stamina_recovery_rate |-> StaminaPerTick \div 2,
     stamina_cooldown |-> 2 * TicksPerSecond]

PlayerConfigs ==
    {MainPlayerConfig,
     [MainPlayerConfig EXCEPT !.stamina_recovery_rate = StaminaPerTick]}

\* PlayerController.__init__: full stamina, free to run, at walk speed.
NewPlayer(cfg) ==
    [walk_speed |-> cfg.walk_speed,
     run_speed |-> cfg.walk_speed * cfg.run_multiplier,
     max_stamina |-> cfg.max_stamina,
     stamina |-> cfg.max_stamina,
     stamina_drain_rate |-> cfg.stamina_drain_rate,
     stamina_recovery_rate |-> cfg.stamina_recovery_rate,
     stamina_cooldown |-> cfg.stamina_cooldown,
     can_run |-> TRUE,
     last_depleted_time |-> 0,
     speed |-> cfg.walk_speed]

\* Mutant of Recovered: the stamina is not cut back to max_stamina.
RecoveredUncapped(p, dt) ==
    IF p.stamina < p.max_stamina
    THEN p.stamina + p.stamina_recovery_rate * dt
    ELSE p.stamina

\* if self.stamina < self.max_stamina: self.stamina += rate * time.dt, cut
\* back to max_stamina when above it.
Recovered(p, dt) ==
    IF p.stamina < p.max_stamina
    THEN Min(p.max_stamina, p.stamina + p.stamina_recovery_rate * dt)
    ELSE p.stamina

\* Mutant of CooldownOver: the cooldown is over as soon as it has begun.
CooldownOverAtOnce(p, t) == t - p.last_depleted_time >= 0

\* (time.time() - self._last_depleted_time) >= self.stamina_cooldown
CooldownOver(p, t) == t - p.last_depleted_time >= p.stamina_cooldown

\* The running logic of PlayerController.update, lines 546-569, with the
\* shift key held or not, at time.time() = t.
RunningLogic(p, shift, dt, t) ==
    IF shift /\ p.stamina > 0 /\ p.can_run
    THEN LET stamina == p.stamina - p.stamina_drain_rate * dt
         IN IF stamina <= 0
            THEN [p EXCEPT !.speed = p.run_speed, !.stamina = 0,
                           !.can_run = FALSE, !.last_depleted_time = t]
            ELSE [p EXCEPT !.speed = p.run_speed, !.stamina = stamina]
    ELSE LET can_run == p.can_run \/ CooldownOver(p, t)
         IN [p EXCEPT !.speed = p.walk_speed, !.can_run = can_run,
                      !.stamina = IF can_run THEN Recovered(p, dt) ELSE @]

\* Mutant of PlayerUpdate: the pause flag is not looked at.
PlayerUpdateWhilePaused(p, paused, shift, dt, t) == RunningLogic(p, shift, dt, t)

\* PlayerController.update: nothing while paused, else the running logic
\* (super().update(), which moves the player, is PlayerMoves).
PlayerUpdate(p, paused, shift, dt, t) ==
    IF paused THEN p ELSE RunningLogic(p, shift, dt, t)

\* The places the player can be after a frame in which it covers disp: where
\* it was, or disp further along the line between the centres of two cells
\* joined by an open wall (FirstPersonController.update, outside this file,
\* moves the player by self.speed * time.dt; the walls keep it in the
\* passages).
OnSegment(q, a, d) ==
    LET A == CentreOf(a)
        B == CentreOf(Step(a, d))
    IN /\ Min(A[1], B[1]) <= q[1] /\ q[1] <= A[1] + B[1] - Min(A[1], B[1])
       /\ Min(A[2], B[2]) <= q[2] /\ q[2] <= A[2] + B[2] - Min(A[2], B[2])

PlayerMoves(pos, disp) ==
    {pos} \cup
    {q \in {<<pos[1] + Delta(m)[1] * disp,
              pos[2] + Delta(m)[2] * disp>> : m \in Dirs} :
        \E a \in Cells, d \in Dirs :
            /\ InBounds(width, height, Step(a, d))
            /\ ~grid[a].walls[d]
            /\ OnSegment(pos, a, d)
            /\ OnSegment(q, a, d)}

\* main, lines 705-725, after spawn_random_crates has returned: the player
\* is put on the centre cell and random_spawn_cell is called with that cell
\* as exclude.
PlacePlayer ==
    /\ mazePc = "done" /\ cratePc = "returned"
    /\ spawnPc = "idle" /\ chasePc = "idle"
    /\ LET p == <<(width \div 2) * CellSize, (height \div 2) * CellSize>>
       IN /\ playerPos' = p
          /\ exclude' = CellOf(p)
    /\ min_dist' = MainMinDist
    /\ spawnPc' = "sample"
    /\ player' = NewPlayer(MainPlayerConfig)
    /\ UNCHANGED <<spawnCell, spawnDraws, crateVars>>
    /\ UNCHANGED <<is_paused, now, chaser, chasePc, lastTick, frames, held_keys>>
    /\ UNCHANGED <<mazeVars, bfsVars>>

\* main, lines 727-742, and Chaser.__init__: the chaser stands on the centre
\* of the spawn cell, at base_speed, with no path.
ChaserInit ==
    /\ spawnPc = "returned" /\ chasePc = "idle"
    /\ \E cfg \in ChaserConfigs :
          chaser' = [pos |-> CentreOf(spawnCell),
                     base_speed |-> cfg.base_speed,
                     speed_increment |-> cfg.speed_increment,
                     max_speed |-> cfg.max_speed,
                     speed |-> cfg.base_speed,
                     spawn_time |-> now,
                     timer |-> 0,
                     path |-> <<>>,
                     path_index |-> 0]
    /\ chasePc' = "running"
    /\ lastTick' = [kind |-> "init"]
    /\ UNCHANGED <<is_paused, now, playerPos, frames, playerVars>>
    /\ UNCHANGED <<mazeVars, bfsVars, spawnVars>>

\* One unpaused frame.  Ursina calls update() of every entity once a frame in
\* the order of their creation: the player (main, line 705) has moved when
\* Chaser.update runs, and the pause flag changes only between frames.
\* Chaser.update: speed ramp, timed path recalculation, path following,
\* direct fallback and the caught check; an IndexError leaves it half way.
ChaserUpdate ==
    /\ chasePc = "running" /\ ~is_paused /\ frames < MaxFrames
    /\ \E dt \in FrameDts, hit \in BOOLEAN, shift \in BOOLEAN :
       \E target \in PlayerMoves(playerPos, player.speed * dt) :
          LET t == now + dt
              elapsed == t - chaser.spawn_time
              speed == SpeedRamp(chaser, elapsed)
              calls == RecalcCalls(chaser.timer, dt)
              due == calls > 0
              timer == TimerAfter(chaser.timer, dt)
              disp == speed * dt
          IN \E rc \in {IF due THEN RecalcPath(chaser, target)
                         ELSE [path |-> chaser.path,
                               path_index |-> chaser.path_index,
                               raised |-> FALSE]} :
             \E fp \in {FollowPath(chaser.pos, rc.path, rc.path_index, disp)} :
             \E probed \in {Probes(fp.moved, fp.pos, target)} :
             \E direct \in {probed /\ GoesDirect(hit, fp.pos, target)} :
             \E pos \in {IF direct THEN MoveToward(fp.pos, target, disp)
                          ELSE fp.pos} :
             \E raised \in {rc.raised \/ fp.raised} :
                /\ raised \/ probed \/ ~hit
                /\ now' = t
                /\ playerPos' = target
                /\ player' = PlayerUpdate(player, is_paused, shift, dt, t)
                /\ held_keys' = shift
                /\ frames' = frames + 1
                /\ chaser' =
                      IF rc.raised
                      THEN [chaser EXCEPT !.speed = speed, !.timer = timer]
                      ELSE IF fp.raised
                      THEN [chaser EXCEPT !.speed = speed, !.timer = timer,
                                          !.path = rc.path,
                                          !.path_index = rc.path_index]
                      ELSE [chaser EXCEPT !.speed = speed, !.timer = timer,
                                          !.path = fp.path,
                                          !.path_index = fp.path_index,
                                          !.pos = pos]
                /\ chasePc' = IF raised THEN "raised"
                              ELSE IF Caught(pos, target) THEN "caught"
                              ELSE "running"
                /\ lastTick' =
                      IF raised
                      THEN [kind |-> "raised", dt |-> dt, elapsed |-> elapsed,
                            recalc |-> due, calls |-> calls,
                            path |-> rc.path, path_index |-> rc.path_index]
                      ELSE [kind |-> "update", dt |-> dt, elapsed |-> elapsed,
                            recalc |-> due, calls |-> calls, path |-> rc.path,
                            path_index |-> rc.path_index, moved |-> fp.moved,
                            followed |-> fp.pos,
                            probed |-> probed, hit |-> probed /\ hit,
                            direct |-> direct]
    /\ UNCHANGED is_paused
    /\ UNCHANGED <<mazeVars, bfsVars, spawnVars>>

\* One paused frame: Chaser.update returns at once (PlayerController.update
\* too, so the player stands still); only the wall clock moves on.
ChaserUpdatePaused ==
    /\ chasePc = "running" /\ is_paused /\ frames < MaxFrames
    /\ \E dt \in PausedDts, shift \in BOOLEAN :
          /\ now' = now + dt
          /\ player' = PlayerUpdate(player, is_paused, shift, dt, now + dt)
    /\ frames' = frames + 1
    /\ lastTick' = [kind |-> "paused"]
    /\ UNCHANGED <<is_paused, playerPos, chaser, chasePc, held_keys>>
    /\ UNCHANGED <<mazeVars, bfsVars, spawnVars>>

\* toggle_pause_menu, between two frames.
TogglePause ==
    /\ chasePc = "running"
    /\ is_paused' = ~is_paused
    /\ UNCHANGED <<now, playerPos, chaser, chasePc, lastTick, frames, playerVars>>
    /\ UNCHANGED <<mazeVars, bfsVars, spawnVars>>

\* main up to Maze(MAZE_W, MAZE_H), on a grid of MainWidth x MainHeight.
InitMain ==
    /\ width = MainWidth
    /\ height = MainHeight
    /\ grid = NewGrid(width, height)
    /\ stack = <<>>
    /\ mazePc = "start"
    /\ IdleBfs
    /\ IdleSpawn
    /\ IdleChase

NextMain ==
    \/ CarveStart \/ CarveStep \/ CarveBacktrack \/ CarveReturn
    \/ CrateTry \/ CrateReturn
    \/ PlacePlayer \/ SpawnSample \/ ChaserInit
    \/ ChaserUpdate \/ ChaserUpdatePaused \/ TogglePause

SpecMain == InitMain /\ [][NextMain]_vars

----------------------------------------------------------------------------
(* The player on its own: PlayerController.update, frame after frame *)

\* The frame times time.dt of the player's frames: 0, 0.1 s, 1 s and 3 s.
PlayerDts == {0, 1, TicksPerSecond, 3 * TicksPerSecond}

\* A PlayerController has been constructed; no maze, no Chaser.
InitPlayer ==
    /\ width = 0
    /\ height = 0
    /\ grid = <<>>
    /\ stack = <<>>
    /\ mazePc = "idle"
    /\ IdleBfs
    /\ IdleSpawn
    /\ is_paused = FALSE
    /\ now = 0
    /\ playerPos = <<>>
    /\ chaser = <<>>
    /\ chasePc = "idle"
    /\ lastTick = <<>>
    /\ frames = 0
    /\ player \in {NewPlayer(cfg) : cfg \in PlayerConfigs}
    /\ held_keys = FALSE

\* One frame: Ursina calls PlayerController.update, with the shift key held
\* or not; the clock has moved on by the frame time.
PlayerTick ==
    /\ player # <<>> /\ chasePc = "idle" /\ spawnPc = "idle"
    /\ frames < MaxPlayerTicks
    /\ \E dt \in PlayerDts, shift \in BOOLEAN :
          /\ now' = now + dt
          /\ player' = PlayerUpdate(player, is_paused, shift, dt, now + dt)
          /\ held_keys' = IF is_paused THEN held_keys ELSE shift
    /\ frames' = frames + 1
    /\ UNCHANGED <<is_paused, playerPos, chaser, chasePc, lastTick>>
    /\ UNCHANGED <<mazeVars, bfsVars, spawnVars>>

\* PlayerController.input('escape'), or the CONTINUE button: toggle_pause_menu
\* flips the pause flag between two frames.
PlayerEscape ==
    /\ player # <<>> /\ chasePc = "idle" /\ spawnPc = "idle"
    /\ is_paused' = ~is_paused
    /\ UNCHANGED <<now, playerPos, chaser, chasePc, lastTick, frames, playerVars>>
    /\ UNCHANGED <<mazeVars, bfsVars, spawnVars>>

NextPlayer == PlayerTick \/ PlayerEscape

SpecPlayer == InitPlayer /\ [][NextPlayer]_vars

----------------------------------------------------------------------------
(* Properties of maze generation *)

\* The open-edge graph: a pair of adjacent in-bounds cells is an edge when a
\* wall between them is absent.
OpenEdges ==
    {{c, Step(c, d)} : <<c, d>> \in
        {e \in Cells \X Dirs :
            InBounds(width, height, Step(e[1], e[2])) /\ ~grid[e[1]].walls[e[2]]}}

\* The cells joined to a cell of S by an edge of E, and S itself.
Grow(E, S) == S \cup {c \in Cells : \E a \in S : {a, c} \in E}

RECURSIVE Closure(_, _)
Closure(E, S) ==
    LET T == Grow(E, S)
    IN IF T = S THEN S ELSE Closure(E, T)

Connected ==
    LET E == OpenEdges
    IN \A c \in Cells : Closure(E, {c}) = Cells

AllVisited == \A c \in Cells : grid[c].visited

\* C1: when Maze(width, height) with width >= 1 and height >= 1 has finished
\* carving, the open-edge graph has exactly width*height - 1 edges and every
\* cell is reachable from every other cell through open walls.
C1_PerfectMaze ==
    (mazePc = "done" /\ width >= 1 /\ height >= 1) =>
        /\ Cardinality(OpenEdges) = width * height - 1
        /\ Connected

\* A finished maze with at least two rows and two columns.
C1_Witness == mazePc = "done" /\ width >= 2 /\ height >= 2

\* C2: in the initial grid, after every carve step and after generation, a
\* cell's wall towards an in-bounds neighbour is absent exactly when the
\* neighbour's wall in the opposite direction is absent.
C2_WallSymmetry ==
    \A c \in Cells :
        /\ InBounds(width, height, <<c[1], c[2] + 1>>) =>
              grid[c].walls["N"] = grid[<<c[1], c[2] + 1>>].walls["S"]
        /\ InBounds(width, height, <<c[1] + 1, c[2]>>) =>
              grid[c].walls["E"] = grid[<<c[1] + 1, c[2]>>].walls["W"]

\* Carving is under way and some wall has been opened.
C2_Witness ==
    /\ mazePc = "loop"
    /\ Len(stack) >= 2
    /\ \E c \in Cells, d \in Dirs : ~grid[c].walls[d]

\* C10: for width >= 1 and height >= 1 _carve terminates; inside the loop the
\* stack is never empty while an unvisited cell remains, and when _carve has
\* returned the stack is empty and every cell is visited.
C10_StackEmptiesWhenAllVisited ==
    /\ []((mazePc = "loop" /\ stack = <<>>) => AllVisited)
    /\ [](mazePc = "done" => (stack = <<>> /\ AllVisited))
    /\ []((width >= 1 /\ height >= 1) => <>(mazePc = "done"))

\* _carve has returned from a grid of several cells after backtracking.
C10_Witness ==
    mazePc = "done" /\ stack = <<>> /\ AllVisited /\ width * height >= 4

----------------------------------------------------------------------------
(* Properties of the shortest-path search *)

\* b is adjacent to a and a has no wall towards b.
Passage(a, b) ==
    \E d \in Dirs : Step(a, d) = b /\ InBounds(width, height, b) /\ ~grid[a].walls[d]

\* The number of edges of a shortest open route from a cell of S (the cells
\* at most k edges from the start) to t, or -1 when there is none: computed
\* level by level, with no queue and no predecessor links.
RECURSIVE LevelsTo(_, _, _)
LevelsTo(S, t, k) ==
    IF t \in S THEN k
    ELSE LET T == S \cup {c \in Cells : \E a \in S : Passage(a, c)}
         IN IF T = S THEN 0 - 1 ELSE LevelsTo(T, t, k + 1)

Distance(s, t) == LevelsTo({s}, t, 0)

\* C3: on a wall layout with wall symmetry, for in-bounds start # goal with
\* goal reachable, bfs_path returns a list that begins with start, ends with
\* goal, steps only through open walls between adjacent cells, and has as
\* many edges as the graph distance from start to goal.
C3_ShortestPath ==
    (/\ bfsPc = "done"
     /\ C2_WallSymmetry
     /\ start \in Cells /\ goal \in Cells /\ start # goal
     /\ Distance(start, goal) >= 0) =>
        LET p == result.path
        IN /\ ~result.raised
           /\ Len(p) >= 2
           /\ p[1] = start
           /\ p[Len(p)] = goal
           /\ \A i \in 1 .. (Len(p) - 1) : Passage(p[i], p[i + 1])
           /\ Len(p) - 1 = Distance(start, goal)

\* A search answered on a grid with a cycle, the goal three or more edges away.
C3_Witness ==
    /\ bfsPc = "done"
    /\ start \in Cells /\ goal \in Cells
    /\ Distance(start, goal) >= 3
    /\ Cardinality(OpenEdges) >= width * height
    /\ Len(result.path) = Distance(start, goal) + 1

\* C4: bfs_path(maze, c, c) returns exactly [c].
C4_SameCell ==
    (bfsPc = "done" /\ start = goal) => result.path = <<start>>

\* A search from a cell to itself on a grid of several cells.
C4_Witness ==
    bfsPc = "done" /\ start = goal /\ width * height >= 4 /\ result.path = <<start>>

\* C5: when goal is not reachable from the in-bounds start, bfs_path returns
\* (after at most one loop iteration per cell) the empty list; it returns a
\* non-empty list only when goal is reachable.
C5_Unreachable ==
    (bfsPc = "done" /\ start \in Cells) =>
        /\ ~result.raised
        /\ result.pops <= Cardinality(Cells)
        /\ Distance(start, goal) < 0 => result.path = <<>>
        /\ result.path # <<>> => Distance(start, goal) >= 0

\* A grid in two pieces, each with an open wall of its own, start in one
\* piece and goal in the other.
C5_Witness ==
    /\ bfsPc = "done"
    /\ start \in Cells /\ goal \in Cells
    /\ Distance(start, goal) < 0
    /\ \E a \in Cells : Passage(start, a)
    /\ \E b \in Cells : Passage(goal, b)
    /\ result.path = <<>>

----------------------------------------------------------------------------
(* Properties of spawn placement *)

\* Some cell of the width x height grid passes the test of random_spawn_cell.
Satisfiable ==
    \E c \in Cells : c # exclude /\ Manhattan(c, exclude) >= min_dist

\* C6: a cell returned by random_spawn_cell is inside the width x height
\* grid, differs from exclude and is at Manhattan distance >= min_dist from it.
C6_SpawnConstraint ==
    spawnPc = "returned" =>
        /\ spawnCell \in Cells
        /\ spawnCell # exclude
        /\ Abs(spawnCell[1] - exclude[1]) + Abs(spawnCell[2] - exclude[2]) >= min_dist

\* A cell returned at exactly the minimum distance from an in-bounds exclude.
C6_Witness ==
    /\ spawnPc = "returned"
    /\ exclude \in Cells
    /\ min_dist >= 2
    /\ Manhattan(spawnCell, exclude) = min_dist

\* C7 (as claimed): when no cell of the grid satisfies the constraint, spawn
\* placement ends with a failure instead of sampling forever.
C7_UnsatisfiableFails ==
    [](~Satisfiable => <>(spawnPc \in {"raised", "failed"}))

----------------------------------------------------------------------------
(* Properties of the pursuit *)

\* C8: from its construction onward the chaser's speed never exceeds
\* max_speed; with time moving forward and speed_increment >= 0 the speed
\* never decreases from one state of the chaser to the next; and after each
\* unpaused tick speed = min(max_speed, base_speed + speed_increment *
\* seconds since spawn).
C8_SpeedRamp ==
    [][/\ chasePc' # "idle" => chaser'.speed <= chaser'.max_speed
       /\ (chasePc # "idle" /\ chasePc' # "idle") =>
              chaser'.speed >= chaser.speed
       /\ (chasePc = "running" /\ ~is_paused /\ frames' = frames + 1) =>
              chaser'.speed =
                  Min(chaser.max_speed,
                      chaser.base_speed
                        + chaser.speed_increment * (now' - chaser.spawn_time))
      ]_vars

\* C9: the pursuit is in the caught outcome only through a tick of
\* Chaser.update that ended with the chaser less than 3.0 from the player,
\* and no tick ends with the chaser that close and the chase still running:
\* the capture falls on the first tick at which the distance is below 3.0.
C9_CaptureThreshold ==
    /\ chasePc = "caught" =>
          /\ lastTick.kind = "update"
          /\ Within(chaser.pos, playerPos, CaptureRadius)
    /\ chasePc = "running" => ~Within(chaser.pos, playerPos, CaptureRadius)
    /\ (chasePc # "idle" /\ lastTick.kind = "update") =>
          (chasePc = "caught" <=> Within(chaser.pos, playerPos, CaptureRadius))

\* The chaser has caught a player who walked during the pursuit, after an
\* earlier tick that left the chase running.
C9_Witness ==
    /\ chasePc = "caught"
    /\ frames >= 2
    /\ playerPos # <<(width \div 2) * CellSize, (height \div 2) * CellSize>>

\* C11: Maze(width, height) with width <= 0 or height <= 0 fails with an
\* error: the constructor never gets into its loop or to its return, it
\* leaves the grid as allocated, and it ends by raising.
C11_InvalidDimension ==
    /\ []((width <= 0 \/ height <= 0) =>
            /\ mazePc \in {"start", "error"}
            /\ grid = NewGrid(width, height)
            /\ stack = <<>>)
    /\ ((width <= 0 \/ height <= 0) ~> mazePc = "error")

\* The constructor has raised on a grid with columns and no rows: the draw of
\* sx succeeded, the draw of sy did not.
C11_Witness == mazePc = "error" /\ width >= 1 /\ height <= 0

\* The tick of Chaser.update taken by a step, and whether its timer is due.
UnpausedTick == chasePc = "running" /\ ~is_paused /\ frames' = frames + 1
RecalcDue == chaser.timer + (now' - now) >= RecalcInterval

\* C13: every recalculation replaces the path wholesale: when the search from
\* the chaser's cell to the player's cell returns two cells or more, the path
\* is that list and the index 1; in every other case the path is empty; and
\* the tick completes (no error leaves update) and goes on to the fallback
\* check, which an empty path always triggers.
C13_RecalcReplacesPath ==
    [][(UnpausedTick /\ RecalcDue) =>
          LET s == CellOf(chaser.pos)
              t == CellOf(playerPos')
              r == BfsPath(grid, width, height, s, t)
          IN /\ chasePc' # "raised"
             /\ lastTick'.kind = "update"
             /\ lastTick'.recalc
             /\ IF s # t /\ ~r.raised /\ Len(r.path) >= 2
                THEN lastTick'.path = r.path /\ lastTick'.path_index = 1
                ELSE lastTick'.path = <<>> /\ lastTick'.probed
      ]_vars

\* C14: a tick of update calls _recalc_path only when the tick time
\* accumulated in _timer since the last recalculation (or since spawn), this
\* tick's dt included, has reached recalc_interval; it then resets _timer to
\* 0, and otherwise keeps accumulating; no tick calls it twice, and a paused
\* tick leaves the chaser alone.
C14_RecalcInterval ==
    [][/\ UnpausedTick =>
             LET acc == chaser.timer + (now' - now)
             IN /\ lastTick'.calls <= 1
                /\ lastTick'.calls = 1 <=> acc >= RecalcInterval
                /\ chaser'.timer = IF acc >= RecalcInterval THEN 0 ELSE acc
       /\ (chasePc = "idle" /\ chasePc' = "running") => chaser'.timer = 0
       /\ (chasePc = "running" /\ is_paused) => chaser' = chaser
      ]_vars

\* A recalculation on a tick of 0.1 s, due only through the time accumulated
\* over the tick before it.
C14_Witness ==
    /\ chasePc = "running"
    /\ lastTick.kind = "update" /\ lastTick.calls = 1 /\ lastTick.dt = 1

\* C15: on every unpaused tick the fallback of step 3 is evaluated exactly
\* when path following did not move the chaser or the player is less than
\* 1.2 * cell_size away; when evaluated, the chaser moves straight at the
\* player by speed * dt exactly when the ray is not blocked or the player is
\* less than 2.5 away; when not evaluated, step 3 moves nothing.
C15_DirectFallback ==
    [][UnpausedTick =>
          /\ lastTick'.kind = "update"
          /\ LET mid == lastTick'.followed
                 target == playerPos'
                 disp == chaser'.speed * (now' - now)
             IN /\ lastTick'.probed <=>
                      (~lastTick'.moved \/ Within(mid, target, NearRadius))
                /\ lastTick'.direct <=>
                      /\ lastTick'.probed
                      /\ ~lastTick'.hit \/ Within(mid, target, CloseRadius)
                /\ chaser'.pos = IF lastTick'.direct
                                 THEN MoveToward(mid, target, disp)
                                 ELSE mid
      ]_vars

\* C16: on every unpaused tick with a path after step 1: within 0.1 of the
\* waypoint at the path index, the index goes up by one, or the path is
\* cleared at the last waypoint, and step 2 does not move the chaser;
\* otherwise path and index stay and the chaser moves towards the waypoint by
\* speed * dt.
C16_PathFollowing ==
    [][(UnpausedTick /\ lastTick'.path # <<>>) =>
          /\ lastTick'.kind = "update"
          /\ LET path == lastTick'.path
                 i == lastTick'.path_index
                 waypoint == CentreOf(path[i + 1])
                 disp == chaser'.speed * (now' - now)
             IN IF Within(chaser.pos, waypoint, ArriveRadius)
                THEN /\ ~lastTick'.moved
                     /\ lastTick'.followed = chaser.pos
                     /\ IF i < Len(path) - 1
                        THEN chaser'.path = path /\ chaser'.path_index = i + 1
                        ELSE chaser'.path = <<>>
                ELSE /\ lastTick'.moved
                     /\ lastTick'.followed = MoveToward(chaser.pos, waypoint, disp)
                     /\ chaser'.path = path /\ chaser'.path_index = i
      ]_vars

----------------------------------------------------------------------------
(* Properties of the carving loop and of the finished grid *)

Visited == {c \in Cells : grid[c].visited}

\* The cells joined to the cells of S by a chain of edges of F.
RECURSIVE Reach(_, _)
Reach(F, S) ==
    LET T == S \cup UNION {e \in F : e \cap S # {}}
    IN IF T = S THEN S ELSE Reach(F, T)

\* No open edge lies on a cycle: without it, its two cells are apart.
Acyclic ==
    LET E == OpenEdges
    IN \A e \in E :
          LET a == CHOOSE x \in e : TRUE
              F == E \ {e}
              R == Reach(F, {a})
          IN e \cap R = {a}

\* C17: in every state of the carving loop and after it the open edges are
\* one fewer than the visited cells, every unvisited cell has its four walls
\* and the open-edge graph has no cycle; and every step that changes the grid
\* in the loop opens exactly one edge, from a visited cell to a cell that was
\* unvisited and is visited after it.
C17_CarveInvariant ==
    /\ [](mazePc \in {"loop", "done"} =>
            /\ Cardinality(OpenEdges) = Cardinality(Visited) - 1
            /\ \A c \in Cells \ Visited : \A d \in Dirs : grid[c].walls[d]
            /\ Acyclic)
    /\ [][(mazePc = "loop" /\ grid' # grid) =>
            \E a \in Visited : \E b \in Cells \ Visited :
               /\ OpenEdges' = OpenEdges \cup {{a, b}}
               /\ {a, b} \notin OpenEdges
               /\ Visited' = Visited \cup {b}]_vars

\* The loop has carved, backtracked and is not finished.
C17_Witness ==
    /\ mazePc = "loop"
    /\ Cardinality(OpenEdges) >= 2
    /\ Len(stack) < Cardinality(Visited)
    /\ ~AllVisited

\* C18: in every state during and after generation every wall on the outer
\* boundary stands: no cell lacks a wall towards a neighbour out of bounds.
C18_BoundaryWalls ==
    \A c \in Cells : \A d \in Dirs :
        ~InBounds(width, height, Step(c, d)) => grid[c].walls[d]

\* A finished maze whose corner (0, 0) is a dead end: it was entered, or
\* left, through one wall, and its two boundary walls stand.
C18_Witness ==
    /\ mazePc = "done" /\ width >= 2 /\ height >= 2
    /\ Cardinality({d \in Dirs : ~grid[<<0, 0>>].walls[d]}) = 1

----------------------------------------------------------------------------
(* Properties of get_neighbors and of the session *)

\* The neighbour of c in direction d, when c has no wall there and the
\* neighbour is a cell of the grid.
OpenTowards(c, d) ==
    IF ~grid[c].walls[d] /\ InBounds(width, height, Step(c, d))
    THEN <<Step(c, d)>>
    ELSE <<>>

\* C19: get_neighbors(maze, x, y) for a cell (x, y) of the grid returns the
\* in-bounds neighbours behind its absent walls, those only, North first,
\* then South, East, West, read from the walls as they are at the call: a
\* call made after a wall was cleared returns the list of the new walls.
C19_GetNeighbors ==
    (bfsPc = "done" /\ start \in Cells) =>
        /\ ~result.raised
        /\ result.cells = OpenTowards(start, "N") \o OpenTowards(start, "S")
                            \o OpenTowards(start, "E") \o OpenTowards(start, "W")

\* A second call, after a wall was cleared, has returned a longer list than
\* the first, with a neighbour to the East or West after one to the North or
\* South.
C19_Witness ==
    /\ bfsPc = "done" /\ start \in Cells
    /\ previous # <<>>
    /\ Len(result.cells) > Len(previous[Len(previous)].cells)
    /\ Len(result.cells) >= 3

\* C20: once Maze(...) has returned, no step of the session (the crate loop,
\* the spawn sampling, the construction of the Chaser, its updates with
\* their recalculations and searches, pausing) changes a wall flag of a cell
\* or the size of the grid.
C20_GridImmutable ==
    [][mazePc = "done" =>
          /\ width' = width /\ height' = height
          /\ \A c \in Cells : grid'[c].walls = grid[c].walls]_vars

\* A session in which a crate was placed and an update has recalculated a
\* path of two cells or more through the finished grid.
C20_Witness ==
    /\ mazePc = "done" /\ cratePc = "returned" /\ crates >= 1
    /\ chasePc = "running"
    /\ lastTick.kind = "update" /\ lastTick.recalc /\ Len(lastTick.path) >= 2

----------------------------------------------------------------------------
(* Properties of the chaser's path index *)

\* C21: once the Chaser is constructed, whatever ticks and recalculations
\* have run, a non-empty _path has 1 <= _path_index <= len(_path) - 1, so
\* self._path[self._path_index] is a waypoint of the path.
C21_PathIndexInRange ==
    (chasePc # "idle" /\ chaser.path # <<>>)
        => /\ 1 <= chaser.path_index
           /\ chaser.path_index <= Len(chaser.path) - 1

\* A tick has found the chaser at a waypoint and moved the index on, to the
\* last cell of a path of three cells or more.
C21_Witness ==
    /\ chasePc = "running"
    /\ lastTick.kind = "update"
    /\ chaser.path # <<>>
    /\ chaser.path_index = lastTick.path_index + 1
    /\ chaser.path_index = Len(chaser.path) - 1

----------------------------------------------------------------------------
(* Properties of the pause flag and of the player's stamina *)

\* C22: a frame run while is_paused is set changes nothing in the pursuit or
\* the player: the Chaser keeps position, speed, _timer, _path and
\* _path_index and is not found to have caught the player, and the player
\* keeps stamina, can_run and speed.
C22_PausedTickFrame ==
    [][(chasePc = "running" /\ is_paused /\ frames' = frames + 1)
          => /\ chaser'.pos = chaser.pos
             /\ chaser'.speed = chaser.speed
             /\ chaser'.timer = chaser.timer
             /\ chaser'.path = chaser.path
             /\ chaser'.path_index = chaser.path_index
             /\ chasePc' = "running"
             /\ player'.stamina = player.stamina
             /\ player'.can_run = player.can_run
             /\ player'.speed = player.speed]_vars

\* A frame was paused in the middle of a run and of a pursuit along a path:
\* unpaused, it would have ramped the speed, moved the chaser and drained or
\* restored stamina.
C22_Witness ==
    /\ chasePc = "running"
    /\ is_paused
    /\ lastTick.kind = "paused"
    /\ chaser.path # <<>>
    /\ player.speed = player.run_speed
    /\ player.stamina < player.max_stamina

\* C23: after any sequence of updates of the player, paused or not, with the
\* run key held or released and any frame times >= 0, the stamina lies in
\* 0 .. max_stamina.
C23_StaminaBounds ==
    player # <<>>
        => /\ 0 <= player.stamina
           /\ player.stamina <= player.max_stamina

\* The stamina has been run down to nothing, which starts the cooldown, and
\* has then been restored to max_stamina.
C23_Witness ==
    /\ player # <<>>
    /\ player.last_depleted_time > 0
    /\ player.can_run
    /\ player.stamina = player.max_stamina

\* An update of the player that got past the pause test, and an update, paused
\* or not, that comes less than stamina_cooldown after the depletion.
RunningLogicRan == player # <<>> /\ ~is_paused /\ frames' = frames + 1
InCooldown ==
    /\ player # <<>> /\ frames' = frames + 1
    /\ ~player.can_run
    /\ now' - player.last_depleted_time < player.stamina_cooldown

----------------------------------------------------------------------------
(* Properties of spawn placement under fair sampling *)

\* MAZE_W, MAZE_H = 15, 15 and min_dist=6 of main; the player stands on the
\* centre cell.
MAZE_W == 15
MAZE_H == 15
SessionMinDist == 6
SessionSatisfiable ==
    \E c \in CellsOf(MAZE_W, MAZE_H) :
        LET centre == <<MAZE_W \div 2, MAZE_H \div 2>>
        IN c # centre /\ Manhattan(c, centre) >= SessionMinDist

\* C25: when some cell of the grid differs from exclude and is min_dist or
\* more from it, as one is for main's 15 x 15 grid, centre cell and
\* min_dist = 6, random_spawn_cell returns in the end, provided every cell
\* is drawn again and again.
C25_SpawnReturns ==
    /\ SessionSatisfiable
    /\ (spawnPc = "sample" /\ Satisfiable) ~> (spawnPc = "returned")

\* random_spawn_cell has returned after an even number of draws: one draw at
\* least was turned down, though a cell of the grid was acceptable.
C25_Witness ==
    /\ spawnPc = "returned"
    /\ Satisfiable
    /\ spawnDraws = 0
    /\ \E c \in Cells : c = exclude \/ Manhattan(c, exclude) < min_dist

====
